---- MODULE Spec2Model ----
(***************************************************************************)
(* Model of the partition tree of s20/p2/bus.py: Node.__init__ (build),    *)
(* Node.search (rectangle search), BusDay.get_stops_rect and               *)
(* BusDay.get_stops_circ, with BusDay.__init__ building the tree once.     *)
(* Coordinates are integers (the comparisons and the squared distance of   *)
(* the code are exact on them).                                            *)
(***************************************************************************)
EXTENDS Integers, Sequences, FiniteSets, TLC

\* ---------------------------------------------------------------- bounds
MaxX == 2              \* x coordinates of stops and of queries range over 0..MaxX
MaxY == 1              \* y coordinates of stops and of queries range over 0..MaxY
MaxRadius == 2         \* circle radii range over -1..MaxRadius
MaxSmallStops == 2     \* every population of at most this many stops is tried

\* ------------------------------------------------------ program constants
BuildLeafDepth == 7    \* Node.__init__: "if i != 7"
SearchLeafDepth == 7   \* Node.search: "if i < 7"

XCoords == 0..MaxX
YCoords == 0..MaxY
Radii == (0 - 1)..MaxRadius

\* A Stop with its Location (stop_id is the identity of the stop).
Stop(id, x, y) == [stop_id |-> id, location |-> [x |-> x, y |-> y]]

\* ------------------------------------------------------------ populations
\* get_stops returns the day's stops sorted by stop_id: a sequence whose
\* k-th stop has stop_id k; the coordinates are whatever the feed holds.
SmallPopulations ==
    UNION { { [k \in 1..n |-> Stop(k, f[k][1], f[k][2])] : f \in [1..n -> XCoords \X YCoords] }
            : n \in 0..MaxSmallStops }

\* Larger populations: the stops walk over the grid, a and b choosing the
\* walk, so that coordinates repeat and fall on both sides of the splits.
PatternPopulation(n, a, b) ==
    [k \in 1..n |-> Stop(k, (a * k) % (MaxX + 1), ((k \div (MaxX + 1)) + b * k) % (MaxY + 1))]

\* 32 stops are the fewest that leave a stop for every node above the
\* leaves; with 66 the leaves hold one or two stops.
BigSizes == {31, 32, 66}

BigPopulations ==
    { PatternPopulation(n, a, b) : n \in BigSizes, a \in 1..2, b \in 0..1 }

Populations == SmallPopulations \cup BigPopulations

\* ------------------------------------------------------------------ build
Coord(axis, loc) == IF axis = "x" THEN loc.x ELSE loc.y

\* Node.__init__ lines 66-69: x at odd depth, y at even depth.
BuildAxis(i) == IF i % 2 # 0 THEN "x" ELSE "y"

\* Node.__init__ line 65.
BuildIsInternal(i) == i # BuildLeafDepth

\* Mutant of Sorted: the stops are left in the order they came in.
Unsorted(axis, stops) == stops

\* sorted(stops, key=...): a stable sort on one coordinate.  The stop at
\* index j moves to the position counting the stops with a smaller key and
\* the earlier stops with an equal key.
Sorted(axis, stops) ==
    LET n == Len(stops)
        key(j) == Coord(axis, stops[j].location)
        rank == [j \in 1..n |->
                    Cardinality({k \in 1..n : key(k) < key(j)})
                    + Cardinality({k \in 1..j : key(k) = key(j)})]
    IN  [p \in 1..n |-> stops[CHOOSE j \in 1..n : rank[j] = p]]

\* stops[:len(stops)//2]
LeftStops(stops) == SubSeq(stops, 1, Len(stops) \div 2)

\* Mutant of RightStops: stops[len(stops)//2 + 1:], the median stop is dropped.
RightStopsAfterMedian(stops) == SubSeq(stops, (Len(stops) \div 2) + 2, Len(stops))

\* stops[len(stops)//2:]
RightStops(stops) == SubSeq(stops, (Len(stops) \div 2) + 1, Len(stops))

\* stops[len(stops)//2] raises IndexError on an empty list, before the
\* children are built; the exception leaves every enclosing constructor.
RECURSIVE NodeRaises(_, _)
NodeRaises(stops, i) ==
    IF BuildIsInternal(i)
    THEN \/ Len(stops) = 0
         \/ LET s == Sorted(BuildAxis(i), stops)
            IN  NodeRaises(LeftStops(s), i + 1) \/ NodeRaises(RightStops(s), i + 1)
    ELSE FALSE

\* The node Node(stops, i) constructs when it does not raise.  leaf is
\* "self.left is None"; val is a Location at an internal node and the list
\* of stops at a leaf.
RECURSIVE Node(_, _)
Node(stops, i) ==
    IF BuildIsInternal(i)
    THEN LET s == Sorted(BuildAxis(i), stops)
         IN  [leaf  |-> FALSE,
              val   |-> s[(Len(s) \div 2) + 1].location,
              left  |-> Node(LeftStops(s), i + 1),
              right |-> Node(RightStops(s), i + 1)]
    ELSE [leaf |-> TRUE, val |-> stops]

\* ----------------------------------------------------------------- search
\* Node.search lines 102 and 113: x at odd depth, y at even depth.
SearchAxis(i) == IF i % 2 # 0 THEN "x" ELSE "y"

\* Node.search line 101.
SearchIsInternal(i) == i < SearchLeafDepth

\* Mutant of SearchBranch: both children only when v is strictly inside.
SearchBranchStrict(v, lim1, lim2) ==
    IF v > lim1 /\ v < lim2 THEN "both"
    ELSE IF v <= lim1 THEN "right"
    ELSE "left"

\* Node.search lines 105-111 (and 116-122): which children are searched,
\* from the split coordinate v and the two bounds as they were passed.
SearchBranch(v, lim1, lim2) ==
    IF v >= lim1 /\ v <= lim2 THEN "both"
    ELSE IF v <= lim1 THEN "right"
    ELSE "left"

\* Node.search line 127: the containment test made on a leaf's stops.
InRect(stop, xlim, ylim) ==
    /\ stop.location.x >= xlim[1] /\ stop.location.x <= xlim[2]
    /\ stop.location.y >= ylim[1] /\ stop.location.y <= ylim[2]

Raised == [err |-> TRUE, stops |-> << >>]

\* results += left...; results += right...: an exception in either call
\* leaves the search.
Concat(r1, r2) ==
    IF r1.err \/ r2.err THEN Raised ELSE [err |-> FALSE, stops |-> r1.stops \o r2.stops]

\* Node.search.  err: the search raised (self.val.x on a leaf's list, or
\* iterating an internal node's Location).
RECURSIVE Search(_, _, _, _)
Search(node, xlim, ylim, i) ==
    IF SearchIsInternal(i)
    THEN IF node.leaf THEN Raised
         ELSE LET lim == IF SearchAxis(i) = "x" THEN xlim ELSE ylim
                  b == SearchBranch(Coord(SearchAxis(i), node.val), lim[1], lim[2])
              IN  IF b = "both"
                  THEN Concat(Search(node.left, xlim, ylim, i + 1),
                              Search(node.right, xlim, ylim, i + 1))
                  ELSE IF b = "right" THEN Search(node.right, xlim, ylim, i + 1)
                  ELSE Search(node.left, xlim, ylim, i + 1)
    ELSE IF ~node.leaf THEN Raised
         ELSE LET Test(stop) == InRect(stop, xlim, ylim)
              IN  [err |-> FALSE, stops |-> SelectSeq(node.val, Test)]

\* Mutant of BoundingSquare: the square starts at the origin's x.
BoundingSquareRightHalf(origin, radius) ==
    [xlim |-> << origin[1], origin[1] + radius >>,
     ylim |-> << origin[2] - radius, origin[2] + radius >>]

\* Mutant of BoundingSquare: the square is taken around abs(radius).
BoundingSquareAbs(origin, radius) ==
    LET r == IF radius < 0 THEN 0 - radius ELSE radius
    IN  [xlim |-> << origin[1] - r, origin[1] + r >>,
         ylim |-> << origin[2] - r, origin[2] + r >>]

\* get_stops_circ lines 218-219: the bounding square.
BoundingSquare(origin, radius) ==
    [xlim |-> << origin[1] - radius, origin[1] + radius >>,
     ylim |-> << origin[2] - radius, origin[2] + radius >>]

\* get_stops_circ line 222.
InCirc(stop, origin, radius) ==
    (stop.location.x - origin[1]) * (stop.location.x - origin[1])
    + (stop.location.y - origin[2]) * (stop.location.y - origin[2])
    <= radius * radius

\* get_stops_circ: the rectangle search on the bounding square, filtered.
SearchCirc(node, origin, radius) ==
    LET sq == BoundingSquare(origin, radius)
        rect_stops == Search(node, sq.xlim, sq.ylim, 1)
        Test(stop) == InCirc(stop, origin, radius)
    IN  IF rect_stops.err THEN Raised
        ELSE [err |-> FALSE, stops |-> SelectSeq(rect_stops.stops, Test)]

NoTree == [absent |-> TRUE]

VARIABLES pc, stop_l, tree, call, result, resultObj

vars == << pc, stop_l, tree, call, result, resultObj >>

NoCall == [op |-> "none", xlim |-> << 0, 0 >>, ylim |-> << 0, 0 >>,
           origin |-> << 0, 0 >>, radius |-> 0]

NoResult == [err |-> FALSE, stops |-> << >>]

Init ==
    /\ pc = "new"
    /\ stop_l = << >>
    /\ tree = NoTree
    /\ call = NoCall
    /\ result = NoResult
    /\ resultObj = "none"

\* BusDay.__init__: the day's stops, then the tree over them.
BusDayInit ==
    /\ pc = "new"
    /\ \E stops \in Populations :
          /\ stop_l' = stops
          /\ IF NodeRaises(stops, 1)
             THEN pc' = "raised" /\ tree' = NoTree
             ELSE pc' = "built" /\ tree' = Node(stops, 1)
    /\ UNCHANGED << call, result, resultObj >>

\* Mutant of GetStopsRect: the query keeps the stops it found as the
\* population ("self.stop_l = ...").
GetStopsRectKeepsFound ==
    /\ pc = "built"
    /\ \E x1 \in XCoords, x2 \in XCoords, y1 \in YCoords, y2 \in YCoords :
          /\ call' = [op |-> "rect", xlim |-> << x1, x2 >>, ylim |-> << y1, y2 >>,
                      origin |-> << 0, 0 >>, radius |-> 0]
          /\ result' = Search(tree, << x1, x2 >>, << y1, y2 >>, 1)
    /\ resultObj' = "new"
    /\ stop_l' = result'.stops
    /\ UNCHANGED << pc, tree >>

\* BusDay.get_stops_rect(xlim, ylim).  resultObj is the list object that is
\* returned: "new" for a list allocated during this call (the root's
\* "results = []"), "retained" for one that existed before the call.
GetStopsRect ==
    /\ pc = "built"
    /\ \E x1 \in XCoords, x2 \in XCoords, y1 \in YCoords, y2 \in YCoords :
          /\ call' = [op |-> "rect", xlim |-> << x1, x2 >>, ylim |-> << y1, y2 >>,
                      origin |-> << 0, 0 >>, radius |-> 0]
          /\ result' = Search(tree, << x1, x2 >>, << y1, y2 >>, 1)
    /\ resultObj' = "new"
    /\ UNCHANGED << pc, stop_l, tree >>

\* Mutant of GetStopsCirc: the list is a default argument ("circ_list=[]" in
\* the signature), one object that every call appends to and returns.
GetStopsCircRetained ==
    /\ pc = "built"
    /\ \E ox \in XCoords, oy \in YCoords, r \in Radii :
          /\ call' = [op |-> "circ", xlim |-> BoundingSquare(<< ox, oy >>, r).xlim,
                      ylim |-> BoundingSquare(<< ox, oy >>, r).ylim,
                      origin |-> << ox, oy >>, radius |-> r]
          /\ result' = Concat(result, SearchCirc(tree, << ox, oy >>, r))
    /\ resultObj' = "retained"
    /\ UNCHANGED << pc, stop_l, tree >>

\* BusDay.get_stops_circ(origin, radius): returns its own "circ_list = []".
GetStopsCirc ==
    /\ pc = "built"
    /\ \E ox \in XCoords, oy \in YCoords, r \in Radii :
          /\ call' = [op |-> "circ", xlim |-> BoundingSquare(<< ox, oy >>, r).xlim,
                      ylim |-> BoundingSquare(<< ox, oy >>, r).ylim,
                      origin |-> << ox, oy >>, radius |-> r]
          /\ result' = SearchCirc(tree, << ox, oy >>, r)
    /\ resultObj' = "new"
    /\ UNCHANGED << pc, stop_l, tree >>

Next == BusDayInit \/ GetStopsRect \/ GetStopsCirc

Spec == Init /\ [][Next]_vars

\* ===================================================== properties checked
Range(seq) == { seq[k] : k \in 1..Len(seq) }

NoDuplicates(seq) == Cardinality(Range(seq)) = Len(seq)

Population == Range(stop_l)

\* The stops held by the leaves under a node, left to right.
RECURSIVE LeafStops(_)
LeafStops(node) ==
    IF node.leaf THEN node.val ELSE LeafStops(node.left) \o LeafStops(node.right)

\* A linear scan of the population for the rectangle [xmin,xmax] x [ymin,ymax].
ScanRect(xmin, xmax, ymin, ymax) ==
    { s \in Population : /\ xmin <= s.location.x /\ s.location.x <= xmax
                         /\ ymin <= s.location.y /\ s.location.y <= ymax }

SquaredDist(s, origin) ==
    (s.location.x - origin[1]) * (s.location.x - origin[1])
    + (s.location.y - origin[2]) * (s.location.y - origin[2])

Min(a, b) == IF a <= b THEN a ELSE b
Max(a, b) == IF a <= b THEN b ELSE a

Ordered(c) == c.xlim[1] <= c.xlim[2] /\ c.ylim[1] <= c.ylim[2]

RectExact ==
    (call.op = "rect" /\ Ordered(call)) =>
        /\ ~result.err
        /\ NoDuplicates(result.stops)
        /\ Range(result.stops)
             = ScanRect(call.xlim[1], call.xlim[2], call.ylim[1], call.ylim[2])

\* C1: for every population, sizes 0 and 1 included, the tree is built and a
\* rectangle search with ordered bounds returns exactly the stops a linear
\* scan of the population finds in the rectangle.
C1_RectSearchExactForEveryPopulation ==
    pc # "new" => (pc = "built" /\ RectExact)

\* C2: a rectangle search with a reversed xlim or ylim returns the same stops
\* as the search with the bounds put in order.
C2_ReversedBoundsNormalized ==
    (pc = "built" /\ call.op = "rect" /\ ~Ordered(call)) =>
        /\ ~result.err
        /\ NoDuplicates(result.stops)
        /\ Range(result.stops)
             = ScanRect(Min(call.xlim[1], call.xlim[2]), Max(call.xlim[1], call.xlim[2]),
                        Min(call.ylim[1], call.ylim[2]), Max(call.ylim[1], call.ylim[2]))

C4_EmptyPopulationBuilds ==
    (pc # "new" /\ stop_l = << >>) =>
        (pc = "built" /\ ~result.err /\ result.stops = << >>)

\* C5: on a built tree a circle search with radius <= 0 does not raise, and
\* the stops it returns all lie at one point.
C5_NonPositiveRadius ==
    (pc = "built" /\ call.op = "circ" /\ call.radius <= 0) =>
        /\ ~result.err
        /\ \A s \in Range(result.stops), t \in Range(result.stops) : s.location = t.location

\* Radius 0 finding several stops at the origin.
C5_Witness ==
    /\ pc = "built" /\ call.op = "circ" /\ call.radius = 0
    /\ Len(result.stops) >= 2

\* Every internal node holds a Location, that of a stop under it, and no stops.
RECURSIVE InternalHoldNoStops(_)
InternalHoldNoStops(node) ==
    \/ node.leaf
    \/ /\ \E s \in Range(LeafStops(node)) : s.location = node.val
       /\ InternalHoldNoStops(node.left)
       /\ InternalHoldNoStops(node.right)

\* C6: the leaves of a built tree hold every stop of the population exactly
\* once, and the internal nodes hold none.
C6_LeavesPartitionPopulation ==
    pc = "built" =>
        /\ Len(LeafStops(tree)) = Len(stop_l)
        /\ NoDuplicates(LeafStops(tree))
        /\ Range(LeafStops(tree)) = Population
        /\ InternalHoldNoStops(tree)

\* A tree over 66 stops, some leaf holding two.
RECURSIVE SomeLeafHolds(_, _)
SomeLeafHolds(node, n) ==
    IF node.leaf THEN Len(node.val) = n
    ELSE SomeLeafHolds(node.left, n) \/ SomeLeafHolds(node.right, n)

C6_Witness ==
    pc = "built" /\ Len(stop_l) > 64 /\ SomeLeafHolds(tree, 2) /\ SomeLeafHolds(tree, 1)

\* The axis of depth d: x when d is odd, y when d is even.
AxisAt(d) == IF d % 2 = 1 THEN "x" ELSE "y"

RECURSIVE MedianSplit(_, _)
MedianSplit(node, d) ==
    \/ node.leaf
    \/ LET L == LeafStops(node.left)
           R == LeafStops(node.right)
           v == Coord(AxisAt(d), node.val)
       IN  /\ Len(L) = (Len(L) + Len(R)) \div 2
           /\ \A s \in Range(L) : Coord(AxisAt(d), s.location) <= v
           /\ \A s \in Range(R) : Coord(AxisAt(d), s.location) >= v
           /\ \E s \in Range(R) : s.location = node.val
           /\ MedianSplit(node.left, d + 1)
           /\ MedianSplit(node.right, d + 1)

\* C7: at every internal node at depth d of a built tree the left subtree
\* holds len // 2 of the node's stops, all with axis coordinate <= the split
\* value, the right subtree the others, all >= the split value, and the split
\* value is the location of a stop of the right subtree (the median goes right).
C7_MedianSplit ==
    pc = "built" => MedianSplit(tree, 1)

\* A root whose split coordinate is shared by stops on both sides.
C7_Witness ==
    /\ pc = "built"
    /\ \E s \in Range(LeafStops(tree.left)) : s.location.x = tree.val.x
    /\ \E s \in Range(LeafStops(tree.left)) : s.location.x < tree.val.x
    /\ \E s \in Range(LeafStops(tree.right)) : s.location.x > tree.val.x

\* C8: once the tree is built no query changes the tree or the population.
C8_TreeReadOnly ==
    [][pc = "built" => (pc' = "built" /\ tree' = tree /\ stop_l' = stop_l)]_vars

\* A query that found stops.
C8_Witness ==
    pc = "built" /\ call.op = "circ" /\ Len(result.stops) > 0

\* The stops inside the rectangle that lie under the children the search
\* does not enter.
RECURSIVE SkippedInside(_, _, _, _)
SkippedInside(node, xlim, ylim, i) ==
    IF node.leaf \/ ~SearchIsInternal(i) THEN { }
    ELSE LET lim == IF SearchAxis(i) = "x" THEN xlim ELSE ylim
             b == SearchBranch(Coord(SearchAxis(i), node.val), lim[1], lim[2])
             inside(n) == Range(LeafStops(n))
                            \cap ScanRect(xlim[1], xlim[2], ylim[1], ylim[2])
         IN  IF b = "both"
             THEN SkippedInside(node.left, xlim, ylim, i + 1)
                    \cup SkippedInside(node.right, xlim, ylim, i + 1)
             ELSE IF b = "right"
             THEN inside(node.left) \cup SkippedInside(node.right, xlim, ylim, i + 1)
             ELSE inside(node.right) \cup SkippedInside(node.left, xlim, ylim, i + 1)

\* The number of children the search does not enter.
RECURSIVE Pruned(_, _, _, _)
Pruned(node, xlim, ylim, i) ==
    IF node.leaf \/ ~SearchIsInternal(i) THEN 0
    ELSE LET lim == IF SearchAxis(i) = "x" THEN xlim ELSE ylim
             b == SearchBranch(Coord(SearchAxis(i), node.val), lim[1], lim[2])
         IN  IF b = "both"
             THEN Pruned(node.left, xlim, ylim, i + 1) + Pruned(node.right, xlim, ylim, i + 1)
             ELSE IF b = "right" THEN 1 + Pruned(node.right, xlim, ylim, i + 1)
             ELSE 1 + Pruned(node.left, xlim, ylim, i + 1)

\* Every node the search treats as internal is one, and every node it
\* treats as a leaf is one.
RECURSIVE KindsAgree(_, _)
KindsAgree(node, i) ==
    /\ SearchIsInternal(i) = ~node.leaf
    /\ node.leaf \/ (KindsAgree(node.left, i + 1) /\ KindsAgree(node.right, i + 1))

\* C9: with ordered bounds, the children a search does not enter hold no stop
\* of the query rectangle, and the search takes the axis and the leaf case
\* at each depth as the build did.
C9_PruningSound ==
    (pc = "built" /\ call.op # "none" /\ Ordered(call)) =>
        /\ SkippedInside(tree, call.xlim, call.ylim, 1) = { }
        /\ KindsAgree(tree, 1)
        /\ \A i \in 1..(BuildLeafDepth - 1) : SearchAxis(i) = BuildAxis(i)
        /\ ~result.err

\* A search that skipped children and still found stops, with the root's
\* split coordinate on the lower bound of the x range.
C9_Witness ==
    /\ pc = "built" /\ call.op = "rect" /\ Ordered(call)
    /\ Pruned(tree, call.xlim, call.ylim, 1) >= 2
    /\ tree.val.x = call.xlim[1]
    /\ Len(result.stops) > 0

\* The stop satisfies the query as it was passed.
Satisfies(s, c) ==
    IF c.op = "rect"
    THEN /\ c.xlim[1] <= s.location.x /\ s.location.x <= c.xlim[2]
         /\ c.ylim[1] <= s.location.y /\ s.location.y <= c.ylim[2]
    ELSE SquaredDist(s, c.origin) <= c.radius * c.radius

\* C10: every query returns a list allocated in that call, holding only
\* stops of that query, and the same arguments give the same stops in the
\* same order whatever was asked before.
C10_NoStateBetweenCalls ==
    [][(pc = "built" /\ call'.op # "none") =>
          /\ resultObj' = "new"
          /\ \A s \in Range(result'.stops) : Satisfies(s, call')
          /\ (call' = call => result' = result)]_vars

\* A rectangle query that returned some of the stops and not all of them.
C10_Witness ==
    /\ pc = "built" /\ call.op = "rect" /\ resultObj = "new"
    /\ Len(result.stops) > 0
    /\ Range(result.stops) # Population
====
